---- MODULE Spec2Model ----
(***************************************************************************)
(* Model of the multi-source scraping project.                             *)
(*                                                                         *)
(*   - storage/minio_client.py : MinIOStorage over a MinIO instance        *)
(*   - config/resolver.py      : linear lookups over the static config     *)
(*   - etl_quotes/a_extract/scraper.py : QuotesScraper (paginated crawl)   *)
(*                                                                         *)
(* Strings that the code concatenates (object keys, file names) are        *)
(* sequences of tokens, "+" is \o.  Python's None is the token None.       *)
(***************************************************************************)
EXTENDS Integers, Sequences, FiniteSets, TLC

VARIABLES
    os_bound,             \* the module global "os" is bound (only the __main__ block imports it)
    minio_cfg,            \* config.settings.minio_cfg.buckets
    minio,                \* the MinIO instance: existing bucket -> (object key -> content)
    local_files,          \* files of the folder minio_local_storage: name -> content
    local_storage_folder, \* self.local_storage_folder (None before / without a folder)
    constructed,          \* a MinIOStorage instance exists
    clock,                \* datetime.utcnow(), in milliseconds
    ncalls,               \* number of method calls made on the instance
    last,                 \* the last call: its name, injected fault, result, uploads
    scr                   \* QuotesScraper.scrape_all_quotes and the site it crawls

vars == <<os_bound, minio_cfg, minio, local_files, local_storage_folder,
          constructed, clock, ncalls, last, scr>>

storage_vars == <<os_bound, minio_cfg, minio, local_files, local_storage_folder,
                  constructed, clock, ncalls, last>>

-----------------------------------------------------------------------------
(* Bounds of the model *)

\* method calls explored on a MinIOStorage instance
MaxCalls == 2
\* milliseconds the clock may advance
MaxClock == 1
\* buckets of a configuration and spaces of a bucket handed to the resolver
MaxBuckets == 2
MaxSpaces == 2
\* put_object calls explored in a run of puts only
MaxPuts == 3

-----------------------------------------------------------------------------
(* Values *)

None == "<None>"

\* datetime.utcnow().strftime("%Y%m%d_%H%M%S_%f")[:-3] of the clock values
TimestampTokens == <<"20261103_101500_000", "20261103_101500_001",
                     "20261103_101500_002", "20261103_101500_003">>

Extensions == {".json", ".csv"}

\* file names used as object_name_local
QuotesJson == <<"quotes", ".json">>
Notes == <<"notes">>
MissingCsv == <<"missing", ".csv">>
\* a name used as new_object_name_remote
RenamedJson == <<"renamed", ".json">>
\* new_object_name_remote=None
NoName == <<None>>

BucketBronze == "bucket-bronze"
BucketSilver == "bucket-silver"
BucketForeign == "bucket-foreign"
SpaceQuotes == "space-site-quotes"
SpaceBooks == "space-site-books"
FlowDir == "flow-dir"
BackupDir == "backup-dir"

SpaceConfig(name, backup) ==
    [name |-> name, flow_dir_name |-> FlowDir, backup_dir_name |-> BackupDir, backup |-> backup]

BucketConfig(name, spaces) == [name |-> name, spaces |-> spaces]

\* MinIOConfig.buckets reduced to two buckets; every space of the repository's
\* configuration has backup=True; SpaceConfig's default is backup=False.
ConfigAllBackup ==
    << BucketConfig(BucketBronze, <<SpaceConfig(SpaceQuotes, TRUE), SpaceConfig(SpaceBooks, TRUE)>>),
       BucketConfig(BucketSilver, <<SpaceConfig(SpaceQuotes, TRUE)>>) >>

ConfigBooksNoBackup ==
    << BucketConfig(BucketBronze, <<SpaceConfig(SpaceQuotes, TRUE), SpaceConfig(SpaceBooks, FALSE)>>),
       BucketConfig(BucketSilver, <<SpaceConfig(SpaceQuotes, TRUE)>>) >>

Configs == {ConfigAllBackup, ConfigBooksNoBackup}

-----------------------------------------------------------------------------
(* config/resolver.py *)

Range(seq) == {seq[i] : i \in DOMAIN seq}

Min(S) == CHOOSE x \in S : \A y \in S : x <= y

\* index of the first element of seq whose name is n, 0 when there is none
FirstNamed(seq, n) ==
    LET hits == {i \in DOMAIN seq : seq[i].name = n}
    IN IF hits = {} THEN 0 ELSE Min(hits)

\* what a lookup that found nothing returns (Python's None)
NoBucket == [name |-> None, spaces |-> <<>>]
NoSpace == [name |-> None, flow_dir_name |-> None, backup_dir_name |-> None, backup |-> FALSE]

get_bucket(cfg, bucket_name) ==
    LET i == FirstNamed(cfg, bucket_name)
    IN IF i = 0 THEN NoBucket ELSE cfg[i]

get_space(cfg, bucket_name, space_name) ==
    LET bucket == get_bucket(cfg, bucket_name)
    IN IF bucket = NoBucket THEN NoSpace
       ELSE LET j == FirstNamed(bucket.spaces, space_name)
            IN IF j = 0 THEN NoSpace ELSE bucket.spaces[j]

list_bucket_names(cfg) == [i \in DOMAIN cfg |-> cfg[i].name]

list_space_names(cfg, bucket_name) ==
    LET bucket == get_bucket(cfg, bucket_name)
    IN IF bucket = NoBucket THEN <<>>
       ELSE [j \in DOMAIN bucket.spaces |-> bucket.spaces[j].name]

\* the first (bucket index, space index), in loop order, at which the nested loops of
\* get_flow_dir_name, get_backup and get_backup_dir_name find both names; <<0, 0>> if none
FirstMatch(cfg, bucket_name, space_name) ==
    LET hits == {i \in DOMAIN cfg :
                    /\ cfg[i].name = bucket_name
                    /\ \E j \in DOMAIN cfg[i].spaces : cfg[i].spaces[j].name = space_name}
    IN IF hits = {} THEN <<0, 0>>
       ELSE <<Min(hits), FirstNamed(cfg[Min(hits)].spaces, space_name)>>

\* mutant: a space that is not found gets the default flow directory
get_flow_dir_name_default(cfg, bucket_name, space_name) ==
    LET p == FirstMatch(cfg, bucket_name, space_name)
    IN IF p[1] = 0 THEN FlowDir ELSE cfg[p[1]].spaces[p[2]].flow_dir_name

get_flow_dir_name(cfg, bucket_name, space_name) ==
    LET p == FirstMatch(cfg, bucket_name, space_name)
    IN IF p[1] = 0 THEN None ELSE cfg[p[1]].spaces[p[2]].flow_dir_name

get_backup(cfg, bucket_name, space_name) ==
    LET p == FirstMatch(cfg, bucket_name, space_name)
    IN IF p[1] = 0 THEN FALSE ELSE cfg[p[1]].spaces[p[2]].backup

get_backup_dir_name(cfg, bucket_name, space_name) ==
    LET p == FirstMatch(cfg, bucket_name, space_name)
    IN IF p[1] = 0 THEN None ELSE cfg[p[1]].spaces[p[2]].backup_dir_name

\* the (bucket name, space name) pairs of the list all_backed_up_spaces returns
all_backed_up_spaces(cfg) ==
    {<<cfg[p[1]].name, cfg[p[1]].spaces[p[2]].name>> :
        p \in {q \in UNION {{<<i, j>> : j \in DOMAIN cfg[i].spaces} : i \in DOMAIN cfg} :
                  cfg[q[1]].spaces[q[2]].backup}}

-----------------------------------------------------------------------------
(* The MinIO server, as the client calls of minio_client.py see it *)

NoObjects == [k \in {} |-> ""]

\* buckets in the order list_buckets returns them (by name)
BucketOrder == <<BucketBronze, BucketForeign, BucketSilver>>

IsPrefix(prefix, key) ==
    /\ Len(prefix) <= Len(key)
    /\ SubSeq(key, 1, Len(prefix)) = prefix

\* f with key k set to value c
Store(f, k, c) == [x \in (DOMAIN f) \cup {k} |-> IF x = k THEN c ELSE f[x]]

\* f without the keys of K
Without(f, K) == [x \in (DOMAIN f) \ K |-> f[x]]

bucket_exists(m, bucket_name) == bucket_name \in DOMAIN m

make_bucket(m, bucket_name) == Store(m, bucket_name, NoObjects)

\* keys list_objects(bucket, prefix, recursive=True) yields
list_objects(m, bucket_name, prefix) ==
    {k \in DOMAIN m[bucket_name] : IsPrefix(prefix, k)}

\* put_object / fput_object: the key is created or overwritten
client_put(m, bucket_name, key, content) ==
    [m EXCEPT ![bucket_name] = Store(m[bucket_name], key, content)]

\* the S3 code stat_object ends with; an injected fault is an access error
stat_object(m, bucket_name, key, faulty) ==
    IF faulty THEN "AccessDenied"
    ELSE IF bucket_name \notin DOMAIN m THEN "NoSuchBucket"
    ELSE IF key \notin DOMAIN m[bucket_name] THEN "NoSuchKey"
    ELSE "ok"

remove_object(m, bucket_name, key) ==
    [m EXCEPT ![bucket_name] = Without(m[bucket_name], {key})]

remove_bucket(m, bucket_name) == Without(m, {bucket_name})

\* every <<bucket, key>> of the instance
AllObjects(m) == UNION {{<<b, k>> : k \in DOMAIN m[b]} : b \in DOMAIN m}

-----------------------------------------------------------------------------
(* MinIOStorage: provisioning *)

NoFault == [call |-> "none", bucket |-> "none"]

Fault(call, bucket_name) == [call |-> call, bucket |-> bucket_name]

\* the result of a handler: the instance after it and the objects it uploaded
Outcome(m, wrote) == [minio |-> m, wrote |-> wrote]

\* mutant: the marker is written at the folder name as passed, without the trailing slash
_ensure_folder_no_slash(m, bucket_name, folder_name, fault) ==
    IF fault = Fault("list_objects", bucket_name) THEN Outcome(m, {})
    ELSE IF list_objects(m, bucket_name, folder_name \o <<"/">>) # {} THEN Outcome(m, {})
    ELSE IF fault = Fault("put_object", bucket_name) THEN Outcome(m, {})
    ELSE Outcome(client_put(m, bucket_name, folder_name, ""), {<<bucket_name, folder_name>>})

\* mutant: the marker is written without looking for objects under the prefix
_ensure_folder_unconditional(m, bucket_name, folder_name, fault) ==
    IF fault \in {Fault("list_objects", bucket_name), Fault("put_object", bucket_name)}
    THEN Outcome(m, {})
    ELSE Outcome(client_put(m, bucket_name, folder_name \o <<"/">>, ""),
                 {<<bucket_name, folder_name \o <<"/">>>>})

_ensure_folder_in_bucket(m, bucket_name, folder_name, fault) ==
    LET folder == IF folder_name[Len(folder_name)] = "/" THEN folder_name
                  ELSE folder_name \o <<"/">>
    IN IF fault = Fault("list_objects", bucket_name) THEN Outcome(m, {})
       ELSE IF list_objects(m, bucket_name, folder) # {} THEN Outcome(m, {})
       ELSE IF fault = Fault("put_object", bucket_name) THEN Outcome(m, {})
       ELSE Outcome(client_put(m, bucket_name, folder, ""), {<<bucket_name, folder>>})

\* the loop over the spaces of one bucket, from the j-th space name on
RECURSIVE EnsureSpaces(_, _, _, _, _)
EnsureSpaces(o, cfg, bucket_name, j, fault) ==
    LET space_names == list_space_names(cfg, bucket_name)
    IN IF j > Len(space_names) THEN o
       ELSE LET space_name == space_names[j]
                space_cfg == get_space(cfg, bucket_name, space_name)
                f == _ensure_folder_in_bucket(o.minio, bucket_name,
                         <<space_name, "/", space_cfg.flow_dir_name>>, fault)
                g == IF space_cfg.backup
                     THEN _ensure_folder_in_bucket(f.minio, bucket_name,
                              <<space_name, "/", space_cfg.backup_dir_name>>, fault)
                     ELSE Outcome(f.minio, {})
            IN EnsureSpaces(Outcome(g.minio, o.wrote \cup f.wrote \cup g.wrote),
                            cfg, bucket_name, j + 1, fault)

\* the loop over the bucket names, from the i-th on; an S3Error of bucket_exists or
\* make_bucket ends the whole loop
RECURSIVE EnsureBuckets(_, _, _, _)
EnsureBuckets(o, cfg, i, fault) ==
    LET bucket_names == list_bucket_names(cfg)
    IN IF i > Len(bucket_names) THEN o
       ELSE LET bucket_name == bucket_names[i]
            IN IF fault = Fault("bucket_exists", bucket_name) THEN o
               ELSE IF ~bucket_exists(o.minio, bucket_name)
                       /\ fault = Fault("make_bucket", bucket_name) THEN o
               ELSE LET made == IF bucket_exists(o.minio, bucket_name) THEN o.minio
                                ELSE make_bucket(o.minio, bucket_name)
                    IN EnsureBuckets(
                           EnsureSpaces(Outcome(made, o.wrote), cfg, bucket_name, 1, fault),
                           cfg, i + 1, fault)

_ensure_buckets_and_folders(m, cfg, fault) == EnsureBuckets(Outcome(m, {}), cfg, 1, fault)

LocalStorageFolder == "minio_local_storage"

\* lines 33-38: the keyword arguments of Minio(...), each the minio_cfg attribute it is
\* read from
ClientArgs ==
    [endpoint |-> "minio_cfg.endpoint", access_key |-> "minio_cfg.minio_root_user",
     secret_key |-> "minio_cfg.minio_root_password", secure |-> "minio_cfg.secure"]

Step(call, args) == [call |-> call, args |-> args]

\* mutant: the local folder is ensured before the buckets are provisioned
__init__folder_first ==
    << Step("Minio", ClientArgs),
       Step("_ensure_local_storage_folder", <<>>),
       Step("_ensure_buckets_and_folders", <<>>) >>

\* lines 32-42: the calls of the constructor body, in program order
__init__ ==
    << Step("Minio", ClientArgs),
       Step("_ensure_buckets_and_folders", <<>>),
       Step("_ensure_local_storage_folder", <<>>) >>

\* lines 47-58: os.path.join raises NameError when "os" is unbound, and the handler
\* returns None
_ensure_local_storage_folder ==
    IF ~os_bound THEN None ELSE LocalStorageFolder

-----------------------------------------------------------------------------
(* MinIOStorage: put_object *)

\* Path(name).suffix and Path(name).stem
Suffix(name) ==
    IF Len(name) > 1 /\ name[Len(name)] \in Extensions THEN <<name[Len(name)]>> ELSE <<>>

Stem(name) == SubSeq(name, 1, Len(name) - Len(Suffix(name)))

\* os.path.splitext(path)[0]
SplitextRoot(path) ==
    IF Len(path) > 1 /\ path[Len(path)] \in Extensions /\ path[Len(path) - 1] # "/"
    THEN SubSeq(path, 1, Len(path) - 1)
    ELSE path

\* datetime.utcnow().strftime("%Y%m%d_%H%M%S_%f")[:-3]
Timestamp(now) == TimestampTokens[now + 1]

\* mutant: an object that exists is not overwritten, the upload goes to a new key
_upload_object_new_key(o, bucket_name, object_path_remote, content, faulty) ==
    IF faulty \/ ~bucket_exists(o.minio, bucket_name) THEN o
    ELSE LET path == IF object_path_remote \in DOMAIN o.minio[bucket_name]
                     THEN object_path_remote \o <<"_">>
                     ELSE object_path_remote
         IN Outcome(client_put(o.minio, bucket_name, path, content),
                    o.wrote \cup {<<bucket_name, path>>})

\* _upload_object: fput_object, every exception logged and swallowed
_upload_object(o, bucket_name, object_path_remote, content, faulty) ==
    IF faulty \/ ~bucket_exists(o.minio, bucket_name) THEN o
    ELSE Outcome(client_put(o.minio, bucket_name, object_path_remote, content),
                 o.wrote \cup {<<bucket_name, object_path_remote>>})

\* _object_exists: "True", "False", or "raise" for an unexpected S3 code
_object_exists(m, bucket_name, object_name, faulty) ==
    LET code == stat_object(m, bucket_name, object_name, faulty)
    IN IF code = "ok" THEN "True"
       ELSE IF code \in {"NoSuchKey", "NoSuchObject", "NoSuchBucket"} THEN "False"
       ELSE "raise"

\* lines 169-175: the remote flow path
object_flow_path(space_name, flow_dir_name, object_name_local, new_object_name_remote) ==
    LET flow_dir_path == <<space_name, "/", flow_dir_name>>
    IN IF new_object_name_remote # NoName
       THEN flow_dir_path \o <<"/">> \o new_object_name_remote
       ELSE flow_dir_path \o <<"/">> \o object_name_local

\* lines 183-202: the backup path, with the rule for a key that already exists
object_path_bck(space_name, backup_dir_name, object_name_local, now, exists) ==
    LET backup_dir_path == <<space_name, "/", backup_dir_name>>
        ext == Suffix(object_name_local)
        object_name == Stem(object_name_local)
        path == backup_dir_path \o <<"/">> \o object_name \o <<"-", Timestamp(now)>> \o ext
    IN IF exists THEN SplitextRoot(path) \o <<"_">> \o ext ELSE path

\* lines 179-204: the backup upload, after the flow upload left o
put_backup(o, bucket_name, space_name, object_name_local, fault) ==
    IF ~get_backup(minio_cfg, bucket_name, space_name) THEN o
    ELSE LET backup_dir_name == get_backup_dir_name(minio_cfg, bucket_name, space_name)
             first == object_path_bck(space_name, backup_dir_name, object_name_local,
                                      clock, FALSE)
             exists == _object_exists(o.minio, bucket_name, first, fault.call = "stat_object")
         IN IF exists = "raise" THEN o       \* S3Error, caught at line 205
            ELSE _upload_object(o, bucket_name,
                     object_path_bck(space_name, backup_dir_name, object_name_local,
                                     clock, exists = "True"),
                     local_files[object_name_local], fault.call = "fput_object_backup")

\* mutant: the local file is not looked for before the upload; a missing file is
\* uploaded as an empty object
put_object_outcome_unchecked(m, bucket_name, space_name, object_name_local, new_object_name_remote, fault) ==
    IF ~os_bound \/ local_storage_folder = None THEN Outcome(m, {})
    ELSE LET flow_dir_name == get_flow_dir_name(minio_cfg, bucket_name, space_name)
             content == IF object_name_local \in DOMAIN local_files
                        THEN local_files[object_name_local] ELSE ""
             flow == IF flow_dir_name = None THEN Outcome(m, {})
                     ELSE _upload_object(Outcome(m, {}), bucket_name,
                              object_flow_path(space_name, flow_dir_name, object_name_local,
                                               new_object_name_remote),
                              content, fault.call = "fput_object_flow")
         IN IF flow_dir_name = None \/ object_name_local \notin DOMAIN local_files THEN flow
            ELSE put_backup(flow, bucket_name, space_name, object_name_local, fault)

put_object_outcome(m, bucket_name, space_name, object_name_local, new_object_name_remote, fault) ==
    IF ~os_bound THEN Outcome(m, {})                            \* NameError at line 162
    ELSE IF local_storage_folder = None THEN Outcome(m, {})     \* TypeError at line 162
    ELSE IF object_name_local \notin DOMAIN local_files THEN Outcome(m, {})   \* FileNotFoundError
    ELSE LET flow_dir_name == get_flow_dir_name(minio_cfg, bucket_name, space_name)
         IN IF flow_dir_name = None THEN Outcome(m, {})         \* TypeError at line 171
            ELSE put_backup(
                     _upload_object(Outcome(m, {}), bucket_name,
                         object_flow_path(space_name, flow_dir_name, object_name_local,
                                          new_object_name_remote),
                         local_files[object_name_local], fault.call = "fput_object_flow"),
                     bucket_name, space_name, object_name_local, fault)

\* the exception class that the except clauses of put_object (lines 205-210) log,
\* "none" when the try block ends normally
put_object_logged(m, bucket_name, space_name, object_name_local, fault) ==
    IF ~os_bound THEN "NameError"
    ELSE IF local_storage_folder = None THEN "TypeError"
    ELSE IF object_name_local \notin DOMAIN local_files THEN "FileNotFoundError"
    ELSE IF get_flow_dir_name(minio_cfg, bucket_name, space_name) = None THEN "TypeError"
    ELSE IF get_backup(minio_cfg, bucket_name, space_name) /\ fault.call = "stat_object"
    THEN "S3Error"
    ELSE "none"

-----------------------------------------------------------------------------
(* MinIOStorage: pull, delete, reset *)

\* lines 238-242 / 270-274: the files of the local folder after a pull from
\* <space>/<dir_name>/<object_name>; every exception is logged and swallowed
pull_object(m, bucket_name, space_name, dir_name, object_name, fault) ==
    IF dir_name = None THEN local_files                       \* TypeError (str + None)
    ELSE IF ~os_bound THEN local_files                        \* NameError at os.path.join
    ELSE IF local_storage_folder = None THEN local_files      \* TypeError in os.path.join
    ELSE LET object_path == <<space_name, "/", dir_name, "/">> \o object_name
         IN IF stat_object(m, bucket_name, object_path, fault.call = "fget_object") # "ok"
            THEN local_files                                  \* S3Error
            ELSE Store(local_files, object_name, m[bucket_name][object_path])

\* the exception class that the except clauses of a pull log
pull_object_logged(m, bucket_name, space_name, dir_name, object_name, fault) ==
    IF dir_name = None THEN "TypeError"
    ELSE IF ~os_bound THEN "NameError"
    ELSE IF local_storage_folder = None THEN "TypeError"
    ELSE IF stat_object(m, bucket_name, <<space_name, "/", dir_name, "/">> \o object_name,
                        fault.call = "fget_object") # "ok"
    THEN "S3Error"
    ELSE "none"

Returned(m, ret) == [minio |-> m, ret |-> ret]

\* the exception class that the except clauses of a delete log; a handler that itself
\* raises (on_other_code is not "False") logs nothing
delete_object_logged(m, bucket_name, space_name, dir_name, object_name, fault, on_other_code) ==
    IF dir_name = None THEN "TypeError"
    ELSE LET object_path == <<space_name, "/", dir_name, "/">> \o object_name
             code == stat_object(m, bucket_name, object_path, fault.call = "stat_object")
         IN IF code \in {"NoSuchKey", "NotFound"} THEN "S3Error"
            ELSE IF code # "ok" \/ fault.call = "remove_object"
            THEN IF on_other_code = "False" THEN "S3Error" ELSE "none"
            ELSE "none"

\* lines 314-341 / 345-372.  on_other_code is what the S3Error handler ends with for a
\* code that is neither NoSuchKey nor NotFound
delete_object(m, bucket_name, space_name, dir_name, object_name, fault, on_other_code) ==
    IF dir_name = None THEN Returned(m, "False")              \* TypeError, except Exception
    ELSE LET object_path == <<space_name, "/", dir_name, "/">> \o object_name
             code == stat_object(m, bucket_name, object_path, fault.call = "stat_object")
         IN IF code \in {"NoSuchKey", "NotFound"} THEN Returned(m, "False")
            ELSE IF code # "ok" THEN Returned(m, on_other_code)
            ELSE IF fault.call = "remove_object" THEN Returned(m, on_other_code)
            ELSE Returned(remove_object(m, bucket_name, object_path), "True")

\* mutant: remove_object without the stat_object before it (S3 removes a missing key silently)
delete_object_flow_no_stat(m, bucket_name, space_name, object_name, fault) ==
    LET dir_name == get_flow_dir_name(minio_cfg, bucket_name, space_name)
    IN IF dir_name = None \/ ~bucket_exists(m, bucket_name) \/ fault.call = "remove_object"
       THEN Returned(m, "False")
       ELSE Returned(remove_object(m, bucket_name,
                         <<space_name, "/", dir_name, "/">> \o object_name), "True")

delete_object_flow_outcome(m, bucket_name, space_name, object_name, fault) ==
    delete_object(m, bucket_name, space_name,
                  get_flow_dir_name(minio_cfg, bucket_name, space_name),
                  object_name, fault, "False")

\* line 365 formats {e} inside "except S3Error as e3": NameError leaves the handler
delete_object_archive_outcome(m, bucket_name, space_name, object_name, fault) ==
    delete_object(m, bucket_name, space_name,
                  get_backup_dir_name(minio_cfg, bucket_name, space_name),
                  object_name, fault, "NameError")

\* lines 392-407: the loop over list_buckets(), from the i-th bucket on
RECURSIVE ResetBuckets(_, _, _)
ResetBuckets(m, i, fault) ==
    IF i > Len(BucketOrder) THEN Returned(m, "True")
    ELSE LET bucket_name == BucketOrder[i]
         IN IF ~bucket_exists(m, bucket_name) THEN ResetBuckets(m, i + 1, fault)
            ELSE LET \* remove_objects reports the objects it could not delete, it does not raise
                     emptied == IF fault = Fault("remove_objects", bucket_name) THEN m
                                ELSE [m EXCEPT ![bucket_name] = NoObjects]
                 IN IF fault = Fault("remove_bucket", bucket_name)
                       \/ DOMAIN emptied[bucket_name] # {}        \* BucketNotEmpty
                    THEN Returned(emptied, "False")
                    ELSE ResetBuckets(remove_bucket(emptied, bucket_name), i + 1, fault)

\* mutant: the loop runs over the configured bucket names instead of list_buckets()
reset_configured_buckets(m, fault) ==
    LET configured == Range(list_bucket_names(minio_cfg))
        r == ResetBuckets([b \in (DOMAIN m) \cap configured |-> m[b]], 1, fault)
    IN IF fault.call = "list_buckets" THEN Returned(m, "False")
       ELSE Returned([b \in ((DOMAIN m) \ configured) \cup DOMAIN r.minio |->
                         IF b \in DOMAIN r.minio THEN r.minio[b] ELSE m[b]],
                     r.ret)

reset_minio_outcome(m, fault) ==
    IF fault.call = "list_buckets" THEN Returned(m, "False")
    ELSE ResetBuckets(m, 1, fault)

-----------------------------------------------------------------------------
(* Inputs *)

ConfiguredBuckets == {BucketBronze, BucketSilver}

\* (bucket_name, space_name) arguments that name a configured space
KnownPairs == {<<BucketBronze, SpaceQuotes>>, <<BucketBronze, SpaceBooks>>}

\* a configured bucket with a space it does not have, a bucket that is not configured
UnknownPairs == {<<BucketSilver, SpaceBooks>>, <<BucketForeign, SpaceQuotes>>}

LocalNames == {QuotesJson, Notes, MissingCsv}
RemoteNames == {NoName, RenamedJson}
FlowNames == {QuotesJson, Notes, RenamedJson}

\* names of the objects under <space>/<backup_dir_name>/ of any bucket, and one that
\* no bucket holds
ArchiveNames(m) ==
    {SubSeq(o[2], 5, Len(o[2])) :
        o \in {x \in AllObjects(m) : Len(x[2]) > 4 /\ x[2][3] = BackupDir}}
    \cup {<<"quotes", "-", "20200101_000000_000", ".json">>}

\* the faults are injected into the calls on one configured space
FaultPair == <<BucketBronze, SpaceQuotes>>

ConstructFaults ==
    {NoFault, Fault("make_bucket", BucketSilver), Fault("bucket_exists", BucketSilver),
     Fault("list_objects", BucketBronze), Fault("put_object", BucketBronze)}

\* <<bucket_name, space_name, object_name_local, new_object_name_remote, fault>>
PutInputs ==
    {<<p[1], p[2], n, r, NoFault>> : p \in KnownPairs, n \in LocalNames, r \in RemoteNames}
    \cup {<<p[1], p[2], QuotesJson, NoName, NoFault>> : p \in UnknownPairs}
    \cup {<<FaultPair[1], FaultPair[2], QuotesJson, NoName, Fault(c, FaultPair[1])>> :
             c \in {"fput_object_flow", "stat_object", "fput_object_backup"}}

\* <<bucket_name, space_name, object_name, fault>>
PullFlowInputs ==
    {<<p[1], p[2], n, NoFault>> : p \in KnownPairs, n \in FlowNames}
    \cup {<<p[1], p[2], QuotesJson, NoFault>> : p \in UnknownPairs}
    \cup {<<FaultPair[1], FaultPair[2], QuotesJson, Fault("fget_object", FaultPair[1])>>}

PullArchiveInputs(m) ==
    {<<p[1], p[2], n, NoFault>> : p \in KnownPairs \cup UnknownPairs, n \in ArchiveNames(m)}
    \cup {<<FaultPair[1], FaultPair[2], n, Fault("fget_object", FaultPair[1])>> :
             n \in ArchiveNames(m)}

DeleteFlowInputs ==
    {<<p[1], p[2], n, NoFault>> : p \in KnownPairs, n \in FlowNames}
    \cup {<<p[1], p[2], QuotesJson, NoFault>> : p \in UnknownPairs}
    \cup {<<FaultPair[1], FaultPair[2], QuotesJson, Fault(c, FaultPair[1])>> :
             c \in {"stat_object", "remove_object"}}

DeleteArchiveInputs(m) ==
    {<<p[1], p[2], n, NoFault>> : p \in KnownPairs \cup UnknownPairs, n \in ArchiveNames(m)}
    \cup {<<FaultPair[1], FaultPair[2], n, Fault(c, FaultPair[1])>> :
             n \in ArchiveNames(m), c \in {"stat_object", "remove_object"}}

ResetFaults ==
    {NoFault, Fault("list_buckets", "none"), Fault("remove_objects", BucketBronze),
     Fault("remove_bucket", BucketSilver)}

\* MinIO instances a process may find: empty, another tenant's bucket, the objects
\* an earlier run left
EmptyInstance == [b \in {} |-> NoObjects]

ForeignInstance == [b \in {BucketForeign} |-> [k \in {<<"report", ".csv">>} |-> "report-v1"]]

EarlierRun(cfg) ==
    LET m == _ensure_buckets_and_folders(EmptyInstance, cfg, NoFault).minio
        n == client_put(m, BucketBronze, <<SpaceQuotes, "/", FlowDir, "/">> \o QuotesJson,
                        "quotes-v1")
    IN client_put(n, BucketBronze,
                  <<SpaceQuotes, "/", BackupDir, "/", "quotes", "-", "20261102_090000_000", ".json">>,
                  "quotes-v1")

InitialInstances(cfg) == {EmptyInstance, ForeignInstance, EarlierRun(cfg)}

InitialFiles ==
    [n \in {QuotesJson, Notes} |-> IF n = QuotesJson THEN "quotes-v2" ELSE "notes-v1"]

\* the scraper before scrape_all_quotes is called
ScraperIdle ==
    [pc |-> "idle", site_pages |-> 0, site_cyclic |-> FALSE, max_pages_arg |-> 0,
     max_pages |-> 0, page |-> 0, url |-> 0, attempt_number |-> 0, requests |-> 0,
     fetched |-> 0, failed |-> FALSE]

-----------------------------------------------------------------------------
(* Specification of the storage layer *)

\* logged is the exception class the handler's except clause logged ("none" if none),
\* steps the calls a constructor made, in order
Call(op, fault, ret, wrote) ==
    [op |-> op, fault |-> fault.call, ret |-> ret, wrote |-> wrote,
     logged |-> "none", steps |-> <<>>]

Init ==
    /\ os_bound \in BOOLEAN
    /\ minio_cfg \in Configs
    /\ minio \in InitialInstances(minio_cfg)
    /\ local_files = InitialFiles
    /\ local_storage_folder = None
    /\ constructed = FALSE
    /\ clock = 0
    /\ ncalls = 0
    /\ last = Call("import", NoFault, "None", {})
    /\ scr = ScraperIdle

\* MinIOStorage(): lines 27-42.  The first construction starts the run; constructing
\* again is one more call.
Construct(fault) ==
    LET o == _ensure_buckets_and_folders(minio, minio_cfg, fault)
    IN /\ ~constructed \/ ncalls < MaxCalls
       /\ minio' = o.minio
       /\ local_storage_folder' = _ensure_local_storage_folder
       /\ constructed' = TRUE
       /\ ncalls' = IF constructed THEN ncalls + 1 ELSE ncalls
       /\ last' = [Call("__init__", fault, "None", o.wrote) EXCEPT !.steps = __init__]
       /\ UNCHANGED <<os_bound, minio_cfg, local_files, clock, scr>>

\* one call of put_object on the constructed instance
put_object_call(bucket_name, space_name, object_name_local, new_object_name_remote, fault) ==
    LET o == put_object_outcome(minio, bucket_name, space_name, object_name_local,
                                new_object_name_remote, fault)
    IN /\ constructed
       /\ minio' = o.minio
       /\ ncalls' = ncalls + 1
       /\ last' = [Call("put_object", fault, "None", o.wrote) EXCEPT
                       !.logged = put_object_logged(minio, bucket_name, space_name,
                                                    object_name_local, fault)]
       /\ UNCHANGED <<os_bound, minio_cfg, local_files, local_storage_folder,
                      constructed, clock, scr>>

put_object(bucket_name, space_name, object_name_local, new_object_name_remote, fault) ==
    /\ ncalls < MaxCalls
    /\ put_object_call(bucket_name, space_name, object_name_local, new_object_name_remote, fault)

pull_object_flow(bucket_name, space_name, object_name, fault) ==
    /\ constructed /\ ncalls < MaxCalls
    /\ local_files' = pull_object(minio, bucket_name, space_name,
                          get_flow_dir_name(minio_cfg, bucket_name, space_name),
                          object_name, fault)
    /\ ncalls' = ncalls + 1
    /\ last' = [Call("pull_object_flow", fault, "None", {}) EXCEPT
                    !.logged = pull_object_logged(minio, bucket_name, space_name,
                                   get_flow_dir_name(minio_cfg, bucket_name, space_name),
                                   object_name, fault)]
    /\ UNCHANGED <<os_bound, minio_cfg, minio, local_storage_folder, constructed, clock, scr>>

pull_object_archive(bucket_name, space_name, object_name, fault) ==
    /\ constructed /\ ncalls < MaxCalls
    /\ local_files' = pull_object(minio, bucket_name, space_name,
                          get_backup_dir_name(minio_cfg, bucket_name, space_name),
                          object_name, fault)
    /\ ncalls' = ncalls + 1
    /\ last' = [Call("pull_object_archive", fault, "None", {}) EXCEPT
                    !.logged = pull_object_logged(minio, bucket_name, space_name,
                                   get_backup_dir_name(minio_cfg, bucket_name, space_name),
                                   object_name, fault)]
    /\ UNCHANGED <<os_bound, minio_cfg, minio, local_storage_folder, constructed, clock, scr>>

delete_object_flow(bucket_name, space_name, object_name, fault) ==
    LET r == delete_object_flow_outcome(minio, bucket_name, space_name, object_name, fault)
    IN /\ constructed /\ ncalls < MaxCalls
       /\ minio' = r.minio
       /\ ncalls' = ncalls + 1
       /\ last' = [Call("delete_object_flow", fault, r.ret, {}) EXCEPT
                       !.logged = delete_object_logged(minio, bucket_name, space_name,
                                      get_flow_dir_name(minio_cfg, bucket_name, space_name),
                                      object_name, fault, "False")]
       /\ UNCHANGED <<os_bound, minio_cfg, local_files, local_storage_folder,
                      constructed, clock, scr>>

delete_object_archive(bucket_name, space_name, object_name, fault) ==
    LET r == delete_object_archive_outcome(minio, bucket_name, space_name, object_name, fault)
    IN /\ constructed /\ ncalls < MaxCalls
       /\ minio' = r.minio
       /\ ncalls' = ncalls + 1
       /\ last' = [Call("delete_object_archive", fault, r.ret, {}) EXCEPT
                       !.logged = delete_object_logged(minio, bucket_name, space_name,
                                      get_backup_dir_name(minio_cfg, bucket_name, space_name),
                                      object_name, fault, "NameError")]
       /\ UNCHANGED <<os_bound, minio_cfg, local_files, local_storage_folder,
                      constructed, clock, scr>>

reset_minio(fault) ==
    LET r == reset_minio_outcome(minio, fault)
    IN /\ constructed /\ ncalls < MaxCalls
       /\ minio' = r.minio
       /\ ncalls' = ncalls + 1
       /\ last' = Call("reset_minio", fault, r.ret, {})
       /\ UNCHANGED <<os_bound, minio_cfg, local_files, local_storage_folder,
                      constructed, clock, scr>>

\* time passes between two calls
Tick ==
    /\ clock < MaxClock
    /\ clock' = clock + 1
    /\ UNCHANGED <<os_bound, minio_cfg, minio, local_files, local_storage_folder,
                   constructed, ncalls, last, scr>>

DoConstruct == \E fault \in ConstructFaults : Construct(fault)

DoPut == \E i \in PutInputs : put_object(i[1], i[2], i[3], i[4], i[5])

DoPullFlow == \E i \in PullFlowInputs : pull_object_flow(i[1], i[2], i[3], i[4])

DoPullArchive == \E i \in PullArchiveInputs(minio) : pull_object_archive(i[1], i[2], i[3], i[4])

DoDeleteFlow == \E i \in DeleteFlowInputs : delete_object_flow(i[1], i[2], i[3], i[4])

DoDeleteArchive ==
    \E i \in DeleteArchiveInputs(minio) : delete_object_archive(i[1], i[2], i[3], i[4])

DoReset == \E fault \in ResetFaults : reset_minio(fault)

Next ==
    \/ DoConstruct
    \/ DoPut
    \/ DoPullFlow
    \/ DoPullArchive
    \/ DoDeleteFlow
    \/ DoDeleteArchive
    \/ DoReset
    \/ Tick

Spec == Init /\ [][Next]_vars

-----------------------------------------------------------------------------
(* Specification of a run of puts: a MinIOStorage constructed, with "os" bound, over
   the instance an earlier run left, on which put_object is called up to MaxPuts times *)

InitPuts ==
    /\ os_bound = TRUE
    /\ minio_cfg \in Configs
    /\ minio = _ensure_buckets_and_folders(EarlierRun(minio_cfg), minio_cfg, NoFault).minio
    /\ local_files = InitialFiles
    /\ local_storage_folder = _ensure_local_storage_folder
    /\ constructed = TRUE
    /\ clock = 0
    /\ ncalls = 0
    /\ last = [Call("__init__", NoFault, "None", {}) EXCEPT !.steps = __init__]
    /\ scr = ScraperIdle

put_object_burst(bucket_name, space_name, object_name_local, new_object_name_remote, fault) ==
    /\ ncalls < MaxPuts
    /\ put_object_call(bucket_name, space_name, object_name_local, new_object_name_remote, fault)

DoPutBurst == \E i \in PutInputs : put_object_burst(i[1], i[2], i[3], i[4], i[5])

NextPuts ==
    \/ DoPutBurst
    \/ Tick

SpecPuts == InitPuts /\ [][NextPuts]_vars

-----------------------------------------------------------------------------
(* Specification of the resolver: the lookups applied to a configuration of up to
   MaxBuckets buckets of up to MaxSpaces spaces, names occurring once or more often *)

SeqsUpTo(S, n) == UNION {[1..k -> S] : k \in 1..n}

ResolverSpaces == {SpaceConfig(n, b) : n \in {SpaceQuotes, SpaceBooks}, b \in BOOLEAN}

ResolverBuckets ==
    {BucketConfig(n, sp) : n \in {BucketBronze, BucketSilver},
                           sp \in SeqsUpTo(ResolverSpaces, MaxSpaces)}

ResolverConfigs == SeqsUpTo(ResolverBuckets, MaxBuckets)

\* what the lookups return for one (bucket_name, space_name)
Resolved(cfg, bucket_name, space_name) ==
    [op |-> "resolve", bucket_name |-> bucket_name, space_name |-> space_name,
     space |-> get_space(cfg, bucket_name, space_name),
     flow_dir_name |-> get_flow_dir_name(cfg, bucket_name, space_name),
     backup_dir_name |-> get_backup_dir_name(cfg, bucket_name, space_name),
     backup |-> get_backup(cfg, bucket_name, space_name),
     backed_up |-> <<bucket_name, space_name>> \in all_backed_up_spaces(cfg)]

InitResolver ==
    /\ os_bound = FALSE
    /\ minio_cfg \in ResolverConfigs
    /\ minio = EmptyInstance
    /\ local_files = InitialFiles
    /\ local_storage_folder = None
    /\ constructed = FALSE
    /\ clock = 0
    /\ ncalls = 0
    /\ last = Call("import", NoFault, "None", {})
    /\ scr = ScraperIdle

Resolve(bucket_name, space_name) ==
    /\ last' = Resolved(minio_cfg, bucket_name, space_name)
    /\ UNCHANGED <<os_bound, minio_cfg, minio, local_files, local_storage_folder,
                   constructed, clock, ncalls, scr>>

DoResolve ==
    \E bucket_name \in {BucketBronze, BucketSilver, BucketForeign},
       space_name \in {SpaceQuotes, SpaceBooks} : Resolve(bucket_name, space_name)

NextResolver == DoResolve

SpecResolver == InitResolver /\ [][NextResolver]_vars

-----------------------------------------------------------------------------
(* QuotesScraper: scrape_all_quotes over a paginated site *)

\* ScraperConfig.max_pages
ConfigMaxPages == 20
\* stop_after_attempt(2)
StopAfterAttempt == 2
\* pages of the largest site crawled
MaxSitePages == 21
\* largest max_pages argument passed, 0 standing for None
MaxPagesArg == 3

\* A site is pages 1..site_pages, page k linking to page k + 1; the last page has no
\* next link, or links back to page 1 when the site is cyclic.  URL 0 is None.
BaseUrl == 1

\* _get_next_page
_get_next_page(s, url) ==
    IF url < s.site_pages THEN url + 1
    ELSE IF s.site_cyclic THEN BaseUrl
    ELSE 0

\* mutant: the max_pages argument is ignored, the configured limit is always used
EffectiveMaxPages_config(max_pages_arg) == ConfigMaxPages

\* line 153: max_pages or scraper_config.max_pages
EffectiveMaxPages(max_pages_arg) ==
    IF max_pages_arg # 0 THEN max_pages_arg ELSE ConfigMaxPages

\* the body of _fetch (lines 63-77) for one outcome of session.get / raise_for_status:
\* "soup", "None" (the function ends without a return) or "raise"
_fetch_body(response) ==
    IF response = "ok" THEN "soup"
    ELSE "None"       \* RequestException and Exception are caught and logged

Responses == {"ok", "request_error", "http_error"}

\* scrape_all_quotes(max_pages) is called on a site
StartScrape(site_pages, site_cyclic, max_pages_arg) ==
    /\ scr.pc = "idle"
    /\ scr' = [scr EXCEPT !.pc = "while", !.site_pages = site_pages,
                          !.site_cyclic = site_cyclic, !.max_pages_arg = max_pages_arg,
                          !.max_pages = EffectiveMaxPages(max_pages_arg),
                          !.page = 1, !.url = BaseUrl]
    /\ UNCHANGED storage_vars

\* line 157: while url and page <= max_pages
WhileTest ==
    /\ scr.pc = "while"
    /\ scr' = IF scr.url # 0 /\ scr.page <= scr.max_pages
              THEN [scr EXCEPT !.pc = "fetch", !.attempt_number = 1, !.requests = 0]
              ELSE [scr EXCEPT !.pc = "done"]
    /\ UNCHANGED storage_vars

\* line 160: one attempt of the tenacity-wrapped _fetch(url), then lines 161-177
FetchAttempt(response) ==
    /\ scr.pc = "fetch"
    /\ LET result == _fetch_body(response)
           requested == [scr EXCEPT !.requests = @ + 1]
       IN scr' =
            IF result = "raise"
            THEN IF scr.attempt_number >= StopAfterAttempt
                 THEN [requested EXCEPT !.pc = "error", !.failed = TRUE]    \* RetryError
                 ELSE [requested EXCEPT !.attempt_number = @ + 1]           \* wait, call again
            ELSE IF result = "None"
            THEN [requested EXCEPT !.pc = "done", !.failed = TRUE]          \* break
            ELSE [requested EXCEPT !.pc = "while", !.fetched = @ + 1,
                                   !.url = _get_next_page(scr, scr.url), !.page = @ + 1]
    /\ UNCHANGED storage_vars

DoStartScrape ==
    \E site_pages \in 1..MaxSitePages, site_cyclic \in BOOLEAN, max_pages_arg \in 0..MaxPagesArg :
        StartScrape(site_pages, site_cyclic, max_pages_arg)

DoFetchAttempt == \E response \in Responses : FetchAttempt(response)

InitScraper ==
    /\ os_bound = FALSE
    /\ minio_cfg = ConfigAllBackup
    /\ minio = EmptyInstance
    /\ local_files = InitialFiles
    /\ local_storage_folder = None
    /\ constructed = FALSE
    /\ clock = 0
    /\ ncalls = 0
    /\ last = Call("import", NoFault, "None", {})
    /\ scr = ScraperIdle

NextScraper ==
    \/ DoStartScrape
    \/ WhileTest
    \/ DoFetchAttempt

SpecScraper == InitScraper /\ [][NextScraper]_vars

\* the generator is driven to its end: the loop test and the fetch are steps of one
\* sequential computation and are taken whenever they are enabled
SpecScraperFair ==
    InitScraper /\ [][NextScraper]_vars /\ WF_vars(WhileTest) /\ WF_vars(DoFetchAttempt)

-----------------------------------------------------------------------------
(* Properties of the storage layer *)

\* the static configuration names the space in the bucket
IsConfigured(bucket_name, space_name) ==
    \E i \in DOMAIN minio_cfg :
        /\ minio_cfg[i].name = bucket_name
        /\ \E j \in DOMAIN minio_cfg[i].spaces : minio_cfg[i].spaces[j].name = space_name

\* the space is configured with backup=True
HasBackup(bucket_name, space_name) ==
    \E i \in DOMAIN minio_cfg :
        /\ minio_cfg[i].name = bucket_name
        /\ \E j \in DOMAIN minio_cfg[i].spaces :
              /\ minio_cfg[i].spaces[j].name = space_name
              /\ minio_cfg[i].spaces[j].backup

FlowPrefix(space_name) == <<space_name, "/", FlowDir, "/">>
BackupPrefix(space_name) == <<space_name, "/", BackupDir, "/">>

\* '<space>/<flow_dir_name>/<name>'
FlowKey(space_name, name) == FlowPrefix(space_name) \o name

\* the keys of bucket_name in m that start with prefix
KeysUnder(m, bucket_name, prefix) ==
    IF bucket_name \in DOMAIN m
    THEN {k \in DOMAIN m[bucket_name] : IsPrefix(prefix, k)}
    ELSE {}

\* the flow objects of every bucket, with their content
FlowObjects(m) ==
    [o \in {x \in AllObjects(m) : Len(x[2]) > 3 /\ x[2][3] = FlowDir} |-> m[o[1]][o[2]]]

\* the name a put stores the flow object under
RemoteName(object_name_local, new_object_name_remote) ==
    IF new_object_name_remote = NoName THEN object_name_local ELSE new_object_name_remote

\* C1: after put_object(bucket, space, local, remote) on a configured space, with the
\* local file present (the bucket exists, no S3 fault is injected), the bucket holds
\* the local file's content at '<space>/<flow_dir_name>/<remote, or local if None>'.
C1_PutStoresFlowObject ==
    [][\A i \in PutInputs :
          ( /\ put_object(i[1], i[2], i[3], i[4], i[5])
            /\ i[5] = NoFault
            /\ IsConfigured(i[1], i[2])
            /\ i[3] \in DOMAIN local_files
            /\ i[1] \in DOMAIN minio )
          => LET key == FlowKey(i[2], RemoteName(i[3], i[4]))
             IN /\ key \in DOMAIN minio'[i[1]]
                /\ minio'[i[1]][key] = local_files[i[3]]
      ]_vars

\* C2: put_object is idempotent on the flow objects: in every reachable state, for every
\* input, a second put_object with the same arguments leaves the flow keys and their
\* content exactly as the first one left them.
C2_PutIdempotent ==
    \A i \in PutInputs :
        LET once == put_object_outcome(minio, i[1], i[2], i[3], i[4], i[5]).minio
            twice == put_object_outcome(once, i[1], i[2], i[3], i[4], i[5]).minio
        IN FlowObjects(twice) = FlowObjects(once)

\* two puts of quotes.json into bronze/space-site-quotes within one millisecond: both
\* backup copies exist and there is one flow object
C2_TwoPutsDone ==
    /\ last.op = "put_object" /\ ncalls = 2 /\ last.fault = "none"
    /\ BucketBronze \in DOMAIN minio
    /\ {BackupPrefix(SpaceQuotes) \o <<"quotes", "-", Timestamp(clock), ".json">>,
        BackupPrefix(SpaceQuotes) \o <<"quotes", "-", Timestamp(clock), "_", ".json">>}
           \subseteq DOMAIN minio[BucketBronze]
    /\ KeysUnder(minio, BucketBronze, FlowPrefix(SpaceQuotes))
           \ {FlowPrefix(SpaceQuotes)} = {FlowKey(SpaceQuotes, QuotesJson)}
    /\ minio[BucketBronze][FlowKey(SpaceQuotes, QuotesJson)] = "quotes-v2"

\* C3: put_object (local file present, bucket existing, no S3 fault injected, no object
\* yet at the timestamped key) writes exactly one object under '<space>/<backup_dir_name>/',
\* at '<stem>-<timestamp><ext>', when the space has backup=True, and writes no object
\* under '<space>/<backup_dir_name>/' when the space has backup=False or is unknown.
C3_BackupExactlyWhenConfigured ==
    [][\A i \in PutInputs :
          ( /\ put_object(i[1], i[2], i[3], i[4], i[5])
            /\ i[5] = NoFault
            /\ i[3] \in DOMAIN local_files
            /\ i[1] \in DOMAIN minio )
          => LET key == BackupPrefix(i[2]) \o Stem(i[3]) \o <<"-", Timestamp(clock)>>
                            \o Suffix(i[3])
                 written == {w \in last'.wrote : w[1] = i[1] /\ IsPrefix(BackupPrefix(i[2]), w[2])}
             IN IF HasBackup(i[1], i[2])
                THEN key \notin DOMAIN minio[i[1]] => written = {<<i[1], key>>}
                ELSE written = {}
      ]_vars

\* C4: a construction whose MinIO calls all succeed leaves every configured bucket in
\* place, with an object under '<space>/<flow_dir_name>/' for every configured space and
\* one under '<space>/<backup_dir_name>/' if the space has backup=True; for a space with
\* backup=False it writes no backup-folder marker.
C4_ProvisioningEnsures ==
    [][Construct(NoFault) =>
          \A i \in DOMAIN minio_cfg :
              LET b == minio_cfg[i].name
              IN /\ b \in DOMAIN minio'
                 /\ \A j \in DOMAIN minio_cfg[i].spaces :
                        LET sp == minio_cfg[i].spaces[j]
                            flow == <<sp.name, "/", sp.flow_dir_name, "/">>
                            backup == <<sp.name, "/", sp.backup_dir_name, "/">>
                        IN /\ KeysUnder(minio', b, flow) # {}
                           /\ sp.backup => KeysUnder(minio', b, backup) # {}
                           /\ ~HasBackup(b, sp.name) =>
                                 /\ <<b, backup>> \notin last'.wrote
                                 /\ KeysUnder(minio', b, backup) = KeysUnder(minio, b, backup)
      ]_vars

\* a fault-free construction that had to write markers, under the configuration in which
\* space-site-books has backup=False
C4_Provisioned ==
    /\ last.op = "__init__" /\ last.fault = "none"
    /\ minio_cfg = ConfigBooksNoBackup
    /\ <<BucketBronze, FlowPrefix(SpaceBooks)>> \in last.wrote
    /\ KeysUnder(minio, BucketBronze, BackupPrefix(SpaceBooks)) = {}
    /\ KeysUnder(minio, BucketBronze, BackupPrefix(SpaceQuotes)) # {}

\* C5: provisioning is idempotent: in every reachable state, a provisioning run that
\* follows a completed one creates no bucket and writes no object; and a provisioning
\* run writes a folder marker only where no object with that prefix exists.
C5_ProvisioningIdempotent ==
    LET first == _ensure_buckets_and_folders(minio, minio_cfg, NoFault)
        second == _ensure_buckets_and_folders(first.minio, minio_cfg, NoFault)
    IN /\ second.minio = first.minio
       /\ second.wrote = {}
       /\ \A w \in first.wrote :
              /\ w[2][Len(w[2])] = "/"
              /\ first.minio[w[1]][w[2]] = ""
              /\ KeysUnder(minio, w[1], w[2]) = {}

\* a MinIOStorage constructed again over the provisioned instance: nothing was written
C5_ConstructedAgain ==
    /\ last.op = "__init__" /\ last.fault = "none" /\ ncalls > 0
    /\ last.wrote = {}
    /\ \A i \in DOMAIN minio_cfg : minio_cfg[i].name \in DOMAIN minio

C7_ResetTrueMeansEmpty ==
    (last.op = "reset_minio" /\ last.ret = "True") => (DOMAIN minio = {} /\ AllObjects(minio) = {})

\* reset_minio returned True after a put
C7_ResetDone ==
    /\ last.op = "reset_minio" /\ last.ret = "True" /\ ncalls = 2
    /\ DOMAIN minio = {}

\* C8: round trip: on a configured space whose bucket exists, put_object(bucket, space, n)
\* stores the file at the flow key and a following pull_object_flow(bucket, space, n)
\* leaves the local file n with the stored content, which is the content of the file
\* that was put; and for every backup key k of a configured space that the instance
\* holds, pull_object_archive(bucket, space, k) leaves the local file k with that
\* object's content.  (A pull never changes the instance: the pull actions leave minio
\* unchanged.)
C8_RoundTrip ==
    constructed =>
        /\ \A p \in KnownPairs, n \in DOMAIN local_files :
              p[1] \in DOMAIN minio =>
                  LET put == put_object_outcome(minio, p[1], p[2], n, NoName, NoFault).minio
                      key == FlowKey(p[2], n)
                      pulled == pull_object(put, p[1], p[2], FlowDir, n, NoFault)
                  IN /\ key \in DOMAIN put[p[1]]
                     /\ pulled[n] = put[p[1]][key]
                     /\ pulled[n] = local_files[n]
        /\ \A p \in KnownPairs :
              \A k \in KeysUnder(minio, p[1], BackupPrefix(p[2])) \ {BackupPrefix(p[2])} :
                  LET name == SubSeq(k, 5, Len(k))
                      pulled == pull_object(minio, p[1], p[2], BackupDir, name, NoFault)
                  IN name \in DOMAIN pulled /\ pulled[name] = minio[p[1]][k]

C12_LocalFolderNeverNone ==
    (constructed /\ ~os_bound) => local_storage_folder = LocalStorageFolder

\* the objects of wrote that lie under prefix in bucket_name
WroteUnder(wrote, bucket_name, prefix) ==
    {w \in wrote : w[1] = bucket_name /\ IsPrefix(prefix, w[2])}

\* C13: backup copies are never overwritten: every put_object on a space with
\* backup=True whose backup upload succeeds increases the number of objects under
\* '<space>/<backup_dir_name>/' by exactly one and leaves every backup object stored
\* before with its content, also for several puts within the same millisecond.
C13_BackupsNeverOverwritten ==
    [][\A i \in PutInputs :
          ( /\ put_object_burst(i[1], i[2], i[3], i[4], i[5])
            /\ HasBackup(i[1], i[2])
            /\ WroteUnder(last'.wrote, i[1], BackupPrefix(i[2])) # {} )
          => LET before == KeysUnder(minio, i[1], BackupPrefix(i[2]))
                 after == KeysUnder(minio', i[1], BackupPrefix(i[2]))
             IN /\ Cardinality(after) = Cardinality(before) + 1
                /\ \A k \in before : k \in after /\ minio'[i[1]][k] = minio[i[1]][k]
      ]_vars

\* C14: a put_object that names a local file which does not exist uploads nothing,
\* neither the flow object nor a backup copy, leaves the instance unchanged, logs the
\* error and returns None.
C14_MissingFileNoUpload ==
    [][\A i \in PutInputs :
          (i[3] \notin DOMAIN local_files /\ put_object(i[1], i[2], i[3], i[4], i[5]))
          => /\ minio' = minio
             /\ last'.wrote = {}
             /\ last'.ret = "None"
             /\ last'.logged = IF os_bound THEN "FileNotFoundError" ELSE "NameError"
      ]_vars

\* a put of a missing file on an instance that was constructed with "os" bound and
\* whose buckets exist
C14_MissingFilePut ==
    /\ last.op = "put_object" /\ last.logged = "FileNotFoundError"
    /\ last.wrote = {} /\ last.ret = "None"
    /\ ConfiguredBuckets \subseteq DOMAIN minio

\* C15: when (bucket_name, space_name) names no configured space, put_object,
\* pull_object_flow, pull_object_archive, delete_object_flow and delete_object_archive
\* upload and remove nothing, leave the instance unchanged and do not raise; the two
\* deletes return False.
C15_UnknownSpaceNoEffect ==
    [][/\ last'.op = "put_object" =>
             \A i \in PutInputs :
                (~IsConfigured(i[1], i[2]) /\ put_object(i[1], i[2], i[3], i[4], i[5]))
                => (minio' = minio /\ last'.wrote = {} /\ last'.ret = "None")
       /\ last'.op = "pull_object_flow" =>
             \A i \in PullFlowInputs :
                (~IsConfigured(i[1], i[2]) /\ pull_object_flow(i[1], i[2], i[3], i[4]))
                => (minio' = minio /\ last'.ret = "None")
       /\ last'.op = "pull_object_archive" =>
             \A i \in PullArchiveInputs(minio) :
                (~IsConfigured(i[1], i[2]) /\ pull_object_archive(i[1], i[2], i[3], i[4]))
                => (minio' = minio /\ last'.ret = "None")
       /\ last'.op = "delete_object_flow" =>
             \A i \in DeleteFlowInputs :
                (~IsConfigured(i[1], i[2]) /\ delete_object_flow(i[1], i[2], i[3], i[4]))
                => (minio' = minio /\ last'.ret = "False")
       /\ last'.op = "delete_object_archive" =>
             \A i \in DeleteArchiveInputs(minio) :
                (~IsConfigured(i[1], i[2]) /\ delete_object_archive(i[1], i[2], i[3], i[4]))
                => (minio' = minio /\ last'.ret = "False")
      ]_vars

\* a delete_object_archive on a space the configuration does not name (the resolver
\* returned None, the path concatenation raised TypeError), after a put on such a space
\* with "os" bound and every configured bucket in place
C15_UnknownSpaceCalled ==
    /\ last.op = "delete_object_archive" /\ last.logged = "TypeError" /\ last.ret = "False"
    /\ os_bound /\ ncalls = 2
    /\ ConfiguredBuckets \subseteq DOMAIN minio

\* C16: a put_object call that wrote a backup object under '<space>/<backup_dir_name>/'
\* also wrote the flow object under '<space>/<flow_dir_name>/', uploads failing or not.
C16_BackupOnlyAfterFlow ==
    [][\A i \in PutInputs :
          put_object(i[1], i[2], i[3], i[4], i[5])
          => ( WroteUnder(last'.wrote, i[1], BackupPrefix(i[2])) # {}
               => WroteUnder(last'.wrote, i[1], FlowPrefix(i[2])) # {} )
      ]_vars

\* C17: delete_object_archive always ends by returning a boolean, as
\* delete_object_flow does: it returns True after removing the object and False on every
\* S3 error of the stat or remove call, whatever its code; no exception leaves it.
C17_DeleteArchiveReturnsBool ==
    [][\A i \in DeleteArchiveInputs(minio) :
          delete_object_archive(i[1], i[2], i[3], i[4])
          => /\ last'.ret \in {"True", "False"}
             /\ last'.ret = delete_object(minio, i[1], i[2],
                                get_backup_dir_name(minio_cfg, i[1], i[2]),
                                i[3], i[4], "False").ret
      ]_vars

-----------------------------------------------------------------------------
(* Properties of the scraper *)

\* C9: a fetch whose request fails is retried: scrape_all_quotes gives a URL up only
\* after stop_after_attempt(2) requests of it have failed.
C9_FailedFetchIsRetried ==
    (scr.pc = "done" /\ scr.failed) => scr.requests = StopAfterAttempt

\* C10: with max_pages=None there is no page limit: when no request fails, the crawl of
\* a site whose last page has no next link ends only after every page was fetched.
C10_NoneMeansAllPages ==
    (scr.pc = "done" /\ scr.max_pages_arg = 0 /\ ~scr.failed /\ ~scr.site_cyclic)
        => (scr.fetched = scr.site_pages /\ scr.url = 0)

\* C18: for a positive max_pages = n, on every site, cyclic or not, scrape_all_quotes
\* fetches at most n pages, the page number growing by one with each fetched page; a
\* crawl without failed request ends after min(n, number of pages) pages when the last
\* page has no next link, and after n pages when the links form a cycle; and every
\* crawl that has started ends.
C18_ScrapeTerminatesWithinLimit ==
    /\ [](scr.max_pages_arg > 0 =>
             /\ scr.fetched <= scr.max_pages_arg
             /\ scr.page = scr.fetched + 1
             /\ (scr.pc = "done" /\ ~scr.failed) =>
                    scr.fetched = IF scr.site_cyclic \/ scr.max_pages_arg <= scr.site_pages
                                  THEN scr.max_pages_arg
                                  ELSE scr.site_pages)
    /\ ((scr.pc \in {"while", "fetch"} /\ scr.max_pages_arg > 0) ~> (scr.pc = "done"))

\* a crawl with max_pages = 3 of a cyclic site of two pages has ended: it went round the
\* cycle and stopped after three pages
C18_CyclicCrawlDone ==
    /\ scr.pc = "done" /\ ~scr.failed
    /\ scr.site_cyclic /\ scr.site_pages = 2 /\ scr.max_pages_arg = 3
    /\ scr.fetched = 3 /\ scr.url = 2

-----------------------------------------------------------------------------
(* Properties of the resolver *)

\* C19: for every configuration, names occurring once or more often, the lookups
\* agree: get_flow_dir_name and get_backup_dir_name return None exactly when get_space
\* returns None and otherwise the flow_dir_name / backup_dir_name of the SpaceConfig
\* get_space returns; get_backup is True exactly when that SpaceConfig has backup=True;
\* and (b, s) is listed by all_backed_up_spaces exactly when get_backup is True.
C19_LookupsAgree ==
    last.op = "resolve" =>
        /\ (last.flow_dir_name = None) <=> (last.space = NoSpace)
        /\ (last.backup_dir_name = None) <=> (last.space = NoSpace)
        /\ last.space # NoSpace =>
               /\ last.flow_dir_name = last.space.flow_dir_name
               /\ last.backup_dir_name = last.space.backup_dir_name
        /\ last.backup <=> (last.space # NoSpace /\ last.space.backup)
        /\ last.backed_up <=> last.backup

====
